---- MODULE Spec2Model ----
(***************************************************************************)
(* LinesCardShader (src/src/scripts/lines-card-shader.ts): one render      *)
(* session on one canvas.  initShader runs once; afterwards the browser    *)
(* delivers animation frames, pointer events, resize-observer and          *)
(* intersection-observer notifications, one handler at a time.             *)
(*                                                                         *)
(* Numbers.  JavaScript numbers are IEEE doubles; the model keeps them on  *)
(* fixed-point grids and rounds every inexact operation to the nearest     *)
(* grid point (ties to even), as the double arithmetic does at its own,    *)
(* finer, resolution:                                                      *)
(*   ratios (quality, dpr, devicePixelRatio, dprCap): 1 = Scale units      *)
(*   pointer coordinates (mouseX, smX, ...):          1 = PScale units     *)
(*   times: milliseconds; u_time = (now - start) / 1000 is kept in         *)
(*   thousandths of a second, the same integer                             *)
(*   lengths: CSS pixels (rect) and device pixels (canvas), integers       *)
(* NaN is a value of its own: every comparison with it is false and every  *)
(* arithmetic operation on it returns it.                                  *)
(***************************************************************************)
EXTENDS Integers, FiniteSets, Sequences, TLC

Scale == 10 * 100
PScale == Scale * Scale
NaN == 0 - 1

\* ---- bounds of the model ------------------------------------------------
\* The clock stops a run after so many ticks of 10ms:
\* under SpecSurface
MaxNow == 4
\* under SpecQuality
MaxNowQ == 30
\* under SpecPointer
MaxNowP == 3
\* under SpecSustained
MaxNowS == 56
\* under SpecConfig
MaxNowC == 2
\* under SpecDeadZone
MaxNowD == 7
\* under SpecLoop
MaxNowL == 6
\* under SpecEvents
MaxNowE == 3
\* under SpecIdle
MaxNowI == 8

\* ---- program constants (scaled) -----------------------------------------
QualityMax == 1000
QualityMin == 750
QualityDown == 30
QualityUp == 10
SlowMs == 22
FastMs == 17
DprEps == 20
DprLimitLo == 1000
DprLimitHi == 2000
MinBox == 2
SmoothNum == 8
SmoothDen == 100
DensityMin == 2000
SpeedMin == 50
\* the size of a canvas element whose markup sets none (HTML)
DefaultCanvas == <<300, 150>>

\* ---- double arithmetic on the grids -------------------------------------
IsNaN(a) == a = NaN

\* n / d rounded to the nearest integer, ties to even (d > 0)
RoundNearest(n, d) ==
  LET q == n \div d
      r == n % d
  IN IF 2 * r < d THEN q
     ELSE IF 2 * r > d THEN q + 1
     ELSE IF q % 2 = 0 THEN q ELSE q + 1

MathMin(a, b) == IF IsNaN(a) \/ IsNaN(b) THEN NaN ELSE IF a < b THEN a ELSE b
MathMax(a, b) == IF IsNaN(a) \/ IsNaN(b) THEN NaN ELSE IF a > b THEN a ELSE b
MathAbs(a) == IF IsNaN(a) THEN NaN ELSE IF a < 0 THEN 0 - a ELSE a
Sub(a, b) == IF IsNaN(a) \/ IsNaN(b) THEN NaN ELSE a - b
Gt(a, b) == ~IsNaN(a) /\ ~IsNaN(b) /\ a > b
\* product of two ratios
MulRatio(a, b) == IF IsNaN(a) \/ IsNaN(b) THEN NaN ELSE RoundNearest(a * b, Scale)
\* Math.floor(px * ratio): CSS pixels times a ratio, floored to an integer
FloorPx(px, ratio) == IF IsNaN(ratio) THEN NaN ELSE (px * ratio) \div Scale
\* WebIDL conversion of a number to unsigned long / GLsizei: NaN becomes 0
ToUint(a) == IF IsNaN(a) THEN 0 ELSE a

\* ---- configuration -------------------------------------------------------
\* The numeric fields of ShaderConfig.  The three colours are left out: hexToRgb01
\* returns a triple for every text and nothing else depends on them.
Fields == {"lineOpacity", "lineDensity", "speed", "mouseStrength", "dprCap"}
defaultConfig ==
  [lineOpacity |-> 550, lineDensity |-> 10000, speed |-> 150, mouseStrength |-> 500,
   dprCap |-> 1500]
\* { ...defaultConfig, ...config }: config is a function on some of the fields
Merge(config) ==
  [f \in Fields |-> IF f \in DOMAIN config THEN config[f] ELSE defaultConfig[f]]

\* A data attribute of the canvas element: absent, or present with a text (a
\* sequence of characters).
Absent == [has |-> FALSE, text |-> <<>>]
Attr(t) == [has |-> TRUE, text |-> t]
Digits == {"0", "1", "2", "3", "4", "5", "6", "7", "8", "9"}
DigitValue(c) ==
  CASE c = "0" -> 0 [] c = "1" -> 1 [] c = "2" -> 2 [] c = "3" -> 3 [] c = "4" -> 4
    [] c = "5" -> 5 [] c = "6" -> 6 [] c = "7" -> 7 [] c = "8" -> 8 [] c = "9" -> 9
\* how many digits t has in a row from position i on
RECURSIVE DigitRun(_, _)
DigitRun(t, i) == IF i <= Len(t) /\ t[i] \in Digits THEN 1 + DigitRun(t, i + 1) ELSE 0
\* the n digits of t from position i on, read as a decimal integer
RECURSIVE DigitsValue(_, _, _)
DigitsValue(t, i, n) ==
  IF n = 0 THEN 0 ELSE 10 * DigitsValue(t, i, n - 1) + DigitValue(t[i + n - 1])
\* parseFloat(text), as a ratio: the longest prefix of the form digits[.digits] is the
\* number, whatever follows it is ignored, and a text with no such prefix gives NaN.
\* (Signs, exponents and leading blanks do not occur in the texts of this model.)
ParseFloat(t) ==
  LET n == DigitRun(t, 1)
      m == IF n + 1 <= Len(t) /\ t[n + 1] = "." THEN DigitRun(t, n + 2) ELSE 0
  IN IF n = 0 /\ m = 0 THEN NaN
     ELSE DigitsValue(t, 1, n) * Scale + RoundNearest(DigitsValue(t, n + 2, m) * Scale, 10 ^ m)

\* Math.max(0, Math.min(1, v)) on a ratio
ClampUnit(v) == MathMax(0, MathMin(Scale, v))
\* the four static uniforms committed by initShader
StaticUniforms(c) ==
  [opacity |-> ClampUnit(c.lineOpacity),
   density |-> MathMax(DensityMin, c.lineDensity),
   speed |-> MathMax(SpeedMin, c.speed),
   mouseStrength |-> ClampUnit(c.mouseStrength)]

\* ---- Program Builder (compileShader, createProgram) ---------------------
\* What the graphics backend answers during one build attempt.
ShaderOutcomes == {"ok", "null", "fail"}
Builds ==
  [vs : ShaderOutcomes, fs : ShaderOutcomes, prog : {"ok", "null"}, link : BOOLEAN]

\* compileShader: live is the set of GPU objects created and not deleted.
\* Returns whether it threw and the objects live afterwards.
CompileShader(live, shader, outcome) ==
  IF outcome = "null" THEN [threw |-> TRUE, live |-> live]
  ELSE IF outcome = "fail"
       THEN [threw |-> TRUE, live |-> (live \cup {shader}) \ {shader}]
       ELSE [threw |-> FALSE, live |-> live \cup {shader}]

\* createProgram: the first throw propagates at once, whatever is live then.
CreateProgram(live, b) ==
  LET vs == CompileShader(live, "vs", b.vs)
  IN IF vs.threw THEN vs
     ELSE LET fs == CompileShader(vs.live, "fs", b.fs)
          IN IF fs.threw THEN fs
             ELSE IF b.prog = "null" THEN [threw |-> TRUE, live |-> fs.live]
             ELSE LET linked == (fs.live \cup {"program"}) \ {"vs", "fs"}
                  IN IF ~b.link
                     THEN [threw |-> TRUE, live |-> linked \ {"program"}]
                     ELSE [threw |-> FALSE, live |-> linked]

\* ---- state --------------------------------------------------------------
VARIABLES
  pc,               \* "boot", then how initShader ended: "reduced", "nocontext",
                    \* "buildfailed" (the three early exits) or "session"
  threw,            \* an exception escaped initShader to its caller
  display,          \* canvas.style.display: "shown" or "none"
  glContext,        \* a WebGL context was obtained
  gpuLive,          \* GPU objects created and not deleted
  attached,         \* observers and listeners attached to the canvas
  rafPending,       \* frame callbacks requested and not yet run
  devicePixelRatio, \* window.devicePixelRatio (0: absent)
  rect,             \* canvas.getBoundingClientRect()
  roPending,        \* a resize-observer notification is waiting to be delivered
  onScreen,         \* the canvas intersects the viewport
  clock,            \* the time in ms
  dataset,          \* canvas.dataset: the data attributes of the element
  cfg,              \* the resolved configuration
  dprLimit, dpr, quality, start, last, running,
  canvasW, canvasH, \* canvas.width, canvas.height (backing store)
  viewport,         \* <<w, h>> of gl.viewport; a new context's viewport is the
                    \* canvas's size
  mouseX, mouseY, smX, smY,
  uRes, uTime, uMouse,  \* the per-frame uniforms
  uOpacity, uDensity, uSpeed, uMouseStrength,  \* the static uniforms
  event,            \* what happened last: the handler that ran ("init", "frame",
                    \* "pointermove", "pointerleave", "resize", "intersection") or
                    \* the change of the page ("layout", "screen")
  storeWrites,      \* assignments to the backing store in that step
  drew,             \* a draw call was issued in that step
  runDt, runLen,    \* dt of the latest Active frame, and how many Active frames
                    \* in a row had that dt
  idleMs            \* the time of the Idle ticks since the latest Active frame

vars ==
  <<pc, threw, display, glContext, gpuLive, attached, rafPending, devicePixelRatio,
    rect, roPending, onScreen, clock, dataset, cfg, dprLimit, dpr, quality, start, last, running, canvasW,
    canvasH, viewport, mouseX, mouseY, smX, smY, uRes, uTime, uMouse, uOpacity,
    uDensity, uSpeed, uMouseStrength, event, storeWrites, drew, runDt, runLen,
    idleMs>>

envVars == <<devicePixelRatio, rect, onScreen, clock, dataset>>
initVars == <<pc, threw, display, glContext, gpuLive, attached>>
qualityVars == <<cfg, dprLimit, dpr, quality, start, last>>
paceVars == <<runDt, runLen, idleMs>>
surfaceVars == <<canvasW, canvasH, viewport>>
pointerVars == <<mouseX, mouseY>>
smoothVars == <<smX, smY>>
uniformVars == <<uRes, uTime, uMouse>>
staticVars == <<uOpacity, uDensity, uSpeed, uMouseStrength>>

Half == PScale \div 2

\* ---- inputs -------------------------------------------------------------
Rect(l, t, w, h) == [left |-> l, top |-> t, width |-> w, height |-> h]
\* not laid out; thinner than 2px; two laid-out boxes
Rects == {Rect(0, 0, 0, 0), Rect(5, 5, 1, 40), Rect(10, 20, 200, 100), Rect(0, 0, 3, 2)}
\* window.devicePixelRatio: absent, 1, 2
DevicePixelRatios == {0, 1000, 2000}
\* cfg.dprCap: NaN (parseFloat of text that is no number), 0.5, the default 1.5, 3
DprCaps == {NaN, 500, 1500, 3000}
\* (clientX, clientY): far outside on either side, and inside the larger box
Points == {<<0 - 1000, 1000>>, <<60, 110>>, <<1000, 0 - 1000>>}
Deltas == {10, 20, 30}

\* Texts of data attributes: no number; a number followed by a unit; numbers
\* outside and inside the ranges of the static uniforms; the empty text.
TextAbc == <<"a", "b", "c">>
Text12px == <<"1", "2", "p", "x">>
Text002 == <<"0", ".", "0", "2">>
Text03 == <<"0", ".", "3">>
Datasets ==
  [lineOpacity : {Absent, Attr(<<"2">>), Attr(TextAbc)},
   lineDensity : {Absent, Attr(<<"1">>), Attr(Text12px)},
   speed : {Absent, Attr(<<>>), Attr(Text002)},
   mouseStrength : {Absent, Attr(Text03)},
   dprCap : {Absent, Attr(TextAbc), Attr(<<"3">>)}]

\* window.devicePixelRatio || 1
HwDpr == IF devicePixelRatio = 0 THEN Scale ELSE devicePixelRatio

\* ---- Render Surface Controller ------------------------------------------
\* (mutant) a resize() that only ever enlarges the backing store
ResizeGrowOnly(r, ratio, w0, h0, vp0) ==
  IF r.width < MinBox \/ r.height < MinBox
  THEN [w |-> w0, h |-> h0, vp |-> vp0, writes |-> 0]
  ELSE LET w == FloorPx(r.width, ratio)
           h == FloorPx(r.height, ratio)
       IN IF w0 < w \/ h0 < h
          THEN [w |-> ToUint(w), h |-> ToUint(h), vp |-> <<ToUint(w), ToUint(h)>>,
                writes |-> 1]
          ELSE [w |-> w0, h |-> h0, vp |-> vp0, writes |-> 0]
\* resize(): the backing store and viewport after the call, and whether it wrote.
Resize(r, ratio, w0, h0, vp0) ==
  IF r.width < MinBox \/ r.height < MinBox
  THEN [w |-> w0, h |-> h0, vp |-> vp0, writes |-> 0]
  ELSE LET w == FloorPx(r.width, ratio)
           h == FloorPx(r.height, ratio)
       IN IF w0 # w \/ h0 # h
          THEN [w |-> ToUint(w), h |-> ToUint(h), vp |-> <<ToUint(w), ToUint(h)>>,
                writes |-> 1]
          ELSE [w |-> w0, h |-> h0, vp |-> vp0, writes |-> 0]

DprLimit(cap) == MathMax(DprLimitLo, MathMin(cap, DprLimitHi))

\* a canvas element with no data attribute
NoAttrs == [f \in Fields |-> Absent]

\* Before initShader is called, on a page whose markup is one of the given datasets.
InitWith(datasets) ==
  /\ dataset \in datasets
  /\ pc = "boot" /\ threw = FALSE /\ display = "shown" /\ glContext = FALSE
  /\ gpuLive = {} /\ attached = {} /\ rafPending = 0
  /\ devicePixelRatio \in DevicePixelRatios
  /\ rect \in Rects
  /\ roPending = FALSE /\ onScreen \in BOOLEAN /\ clock = 0
  /\ cfg = defaultConfig
  /\ dprLimit = 0 /\ dpr = 0 /\ quality = 0 /\ start = 0 /\ last = 0
  /\ running = FALSE
  /\ canvasW = DefaultCanvas[1] /\ canvasH = DefaultCanvas[2]
  /\ viewport = DefaultCanvas
  /\ mouseX = 0 /\ mouseY = 0 /\ smX = 0 /\ smY = 0
  /\ uRes = <<0, 0>> /\ uTime = 0 /\ uMouse = <<0, 0>>
  /\ uOpacity = 0 /\ uDensity = 0 /\ uSpeed = 0 /\ uMouseStrength = 0
  /\ event = "none" /\ storeWrites = 0 /\ drew = FALSE
  /\ runDt = 0 /\ runLen = 0 /\ idleMs = 0

Init == InitWith({NoAttrs})

\* (mutant) an early exit that leaves the canvas displayed
InitExitShown(path, ctx, live) ==
  /\ pc' = path /\ threw' = FALSE
  /\ glContext' = ctx /\ gpuLive' = live
  /\ event' = "init"
  /\ UNCHANGED <<display, attached, rafPending, roPending, running, storeWrites, drew>>
  /\ UNCHANGED <<envVars, qualityVars, surfaceVars, pointerVars, smoothVars, uniformVars, staticVars>>

\* The early exits of initShader: hide the canvas and return.
InitExit(path, ctx, live) ==
  /\ pc' = path /\ threw' = FALSE /\ display' = "none"
  /\ glContext' = ctx /\ gpuLive' = live
  /\ event' = "init"
  /\ UNCHANGED <<attached, rafPending, roPending, running, storeWrites, drew>>
  /\ UNCHANGED <<envVars, qualityVars, surfaceVars, pointerVars, smoothVars, uniformVars, staticVars>>

\* initShader(canvas, config)
InitShader(prefersReduced, contexts, b, config) ==
  /\ pc = "boot"
  /\ IF prefersReduced THEN InitExit("reduced", FALSE, gpuLive)
     ELSE IF contexts = {} THEN InitExit("nocontext", FALSE, gpuLive)
     ELSE LET built == CreateProgram(gpuLive, b)
          IN IF built.threw THEN InitExit("buildfailed", TRUE, built.live)
             ELSE LET merged == Merge(config)
                      static == StaticUniforms(merged)
                      limit == DprLimit(merged.dprCap)
                      ratio == MathMin(HwDpr, limit)
                      sized == Resize(rect, ratio, canvasW, canvasH, viewport)
                  IN /\ pc' = "session" /\ threw' = FALSE /\ glContext' = TRUE
                     /\ gpuLive' = built.live \cup {"buffer"}
                     /\ cfg' = merged
                     /\ dprLimit' = limit /\ dpr' = ratio
                     /\ attached' = {"resize", "intersection", "pointermove", "pointerleave"}
                     /\ roPending' = TRUE
                     /\ running' = TRUE
                     /\ mouseX' = Half /\ mouseY' = Half /\ smX' = Half /\ smY' = Half
                     /\ start' = clock /\ last' = clock /\ quality' = QualityMax
                     /\ canvasW' = sized.w /\ canvasH' = sized.h /\ viewport' = sized.vp
                     /\ storeWrites' = sized.writes
                     /\ rafPending' = rafPending + 1
                     /\ uOpacity' = static.opacity /\ uDensity' = static.density
                     /\ uSpeed' = static.speed
                     /\ uMouseStrength' = static.mouseStrength
                     /\ event' = "init" /\ drew' = FALSE
                     /\ UNCHANGED <<display, envVars, uniformVars>>

\* initAllShaders(), for the one canvas of the page: a numeric field is taken from
\* its data attribute when the attribute's text is truthy (present and not empty).
InitAllShaders(prefersReduced, contexts, b) ==
  LET given == {f \in Fields : dataset[f].has /\ dataset[f].text # <<>>}
      config == [f \in given |-> ParseFloat(dataset[f].text)]
  IN InitShader(prefersReduced, contexts, b, config)

\* ---- Input Tracker ------------------------------------------------------
\* (mutant) the lower clamp forgotten
Clamp01Upper(v) == MathMin(PScale, v)
Clamp01(v) == MathMax(0, MathMin(PScale, v))
\* (e.clientX - rect.left) / rect.width, clamped
NormX(x, r) == Clamp01(RoundNearest((x - r.left) * PScale, r.width))
\* 1 - (e.clientY - rect.top) / rect.height, clamped
NormY(y, r) == Clamp01(PScale - RoundNearest((y - r.top) * PScale, r.height))
\* (mutant) a smoothing factor of 0.8
SmoothFast(sm, raw) == sm + RoundNearest((raw - sm) * 10 * SmoothNum, SmoothDen)
\* sm += (raw - sm) * 0.08
Smooth(sm, raw) == sm + RoundNearest((raw - sm) * SmoothNum, SmoothDen)

\* onPointerMove(e)
PointerMove(pt) ==
  /\ "pointermove" \in attached
  /\ IF rect.width <= 0 \/ rect.height <= 0
     THEN UNCHANGED pointerVars
     ELSE /\ mouseX' = NormX(pt[1], rect)
          /\ mouseY' = NormY(pt[2], rect)
  /\ event' = "pointermove" /\ storeWrites' = 0 /\ drew' = FALSE
  /\ UNCHANGED <<initVars, rafPending, roPending, running>>
  /\ UNCHANGED <<envVars, qualityVars, surfaceVars, smoothVars, uniformVars, staticVars>>

\* (mutant) a pointerleave listener that resets one axis only
PointerLeaveXOnly ==
  /\ "pointerleave" \in attached
  /\ mouseX' = Half /\ mouseY' = mouseY
  /\ event' = "pointerleave" /\ storeWrites' = 0 /\ drew' = FALSE
  /\ UNCHANGED <<initVars, rafPending, roPending, running>>
  /\ UNCHANGED <<envVars, qualityVars, surfaceVars, smoothVars, uniformVars, staticVars>>

\* the pointerleave listener
PointerLeave ==
  /\ "pointerleave" \in attached
  /\ mouseX' = Half /\ mouseY' = Half
  /\ event' = "pointerleave" /\ storeWrites' = 0 /\ drew' = FALSE
  /\ UNCHANGED <<initVars, rafPending, roPending, running>>
  /\ UNCHANGED <<envVars, qualityVars, surfaceVars, smoothVars, uniformVars, staticVars>>

\* ---- observers ----------------------------------------------------------
\* The page lays the canvas out anew; a change of size queues a notification
\* for an attached ResizeObserver.
LayoutChange(r) ==
  /\ pc = "session"
  /\ r # rect
  /\ rect' = r
  /\ roPending' = (roPending \/ ("resize" \in attached /\
                     (r.width # rect.width \/ r.height # rect.height)))
  /\ UNCHANGED <<initVars, rafPending, running, devicePixelRatio, onScreen, clock, dataset>>
  /\ UNCHANGED <<qualityVars, surfaceVars, pointerVars, smoothVars, uniformVars, staticVars>>
  /\ event' = "layout" /\ storeWrites' = 0 /\ drew' = FALSE

\* new ResizeObserver(() => resize())
ResizeObserved ==
  /\ "resize" \in attached /\ roPending
  /\ LET sized == Resize(rect, dpr, canvasW, canvasH, viewport)
     IN /\ canvasW' = sized.w /\ canvasH' = sized.h /\ viewport' = sized.vp
        /\ storeWrites' = sized.writes
  /\ roPending' = FALSE
  /\ event' = "resize" /\ drew' = FALSE
  /\ UNCHANGED <<initVars, rafPending, running>>
  /\ UNCHANGED <<envVars, qualityVars, pointerVars, smoothVars, uniformVars, staticVars>>

\* One delivery of the IntersectionObserver: the canvas's entries since the last
\* delivery, oldest first; the last one is the state the canvas is in now.
IntersectionObserved(entries) ==
  /\ "intersection" \in attached
  /\ onScreen' = entries[Len(entries)]
  /\ running' = (\E i \in 1..Len(entries) : entries[i])
  /\ event' = "intersection" /\ storeWrites' = 0 /\ drew' = FALSE
  /\ UNCHANGED <<initVars, rafPending, roPending, devicePixelRatio, rect, clock, dataset>>
  /\ UNCHANGED <<qualityVars, surfaceVars, pointerVars, smoothVars, uniformVars, staticVars>>

\* The window moves to another screen or is zoomed.
DprChange(v) ==
  /\ pc = "session"
  /\ v # devicePixelRatio
  /\ devicePixelRatio' = v
  /\ UNCHANGED <<initVars, rafPending, roPending, running, rect, onScreen, clock, dataset>>
  /\ UNCHANGED <<qualityVars, surfaceVars, pointerVars, smoothVars, uniformVars, staticVars>>
  /\ event' = "screen" /\ storeWrites' = 0 /\ drew' = FALSE

\* ---- Adaptive Frame Scheduler -------------------------------------------
\* (mutant) no floor under the quality
AdaptQualityNoFloor(q, dt) ==
  IF dt > SlowMs THEN q - QualityDown
  ELSE IF dt < FastMs THEN MathMin(QualityMax, q + QualityUp)
  ELSE q
\* (mutant) slow frames lower the quality by the step of fast frames
AdaptQualitySlowStep(q, dt) ==
  IF dt > SlowMs THEN MathMax(QualityMin, q - QualityUp)
  ELSE IF dt < FastMs THEN MathMin(QualityMax, q + QualityUp)
  ELSE q
\* (mutant) the dead zone without its upper endpoint
AdaptQualityOpenZone(q, dt) ==
  IF dt >= SlowMs THEN MathMax(QualityMin, q - QualityDown)
  ELSE IF dt < FastMs THEN MathMin(QualityMax, q + QualityUp)
  ELSE q
AdaptQuality(q, dt) ==
  IF dt > SlowMs THEN MathMax(QualityMin, q - QualityDown)
  ELSE IF dt < FastMs THEN MathMin(QualityMax, q + QualityUp)
  ELSE q

TargetDpr(hw, q, limit) == MathMin(MulRatio(hw, q), limit)
\* (mutant) the ratio is never committed
CommitDprNever(target, cur) == cur
CommitDpr(target, cur) == IF Gt(MathAbs(Sub(target, cur)), DprEps) THEN target ELSE cur

\* (mutant) an Idle tick that still issues the draw call
IdleTickDraws ==
  /\ storeWrites' = 0 /\ drew' = TRUE
  /\ UNCHANGED <<qualityVars, surfaceVars, smoothVars, uniformVars>>
\* (mutant) an Idle tick that advances the last-frame timestamp
IdleTickStamps ==
  /\ storeWrites' = 0 /\ drew' = FALSE
  /\ last' = clock'
  /\ UNCHANGED <<cfg, dprLimit, dpr, quality, start, surfaceVars, smoothVars, uniformVars>>
\* if (!running) return;
IdleTick ==
  /\ storeWrites' = 0 /\ drew' = FALSE
  /\ UNCHANGED <<qualityVars, surfaceVars, smoothVars, uniformVars>>

\* frame(now), with now = clock + d
Frame(d) ==
  /\ rafPending > 0
  /\ clock' = clock + d
  /\ rafPending' = (rafPending - 1) + 1
  /\ event' = "frame"
  /\ IF ~running
     THEN IdleTick
     ELSE LET now == clock + d
              dt == now - last
              q == AdaptQuality(quality, dt)
              ratio == CommitDpr(TargetDpr(HwDpr, q, dprLimit), dpr)
              sized == Resize(rect, ratio, canvasW, canvasH, viewport)
              sx == Smooth(smX, mouseX)
              sy == Smooth(smY, mouseY)
          IN /\ last' = now /\ quality' = q /\ dpr' = ratio
             /\ canvasW' = sized.w /\ canvasH' = sized.h /\ viewport' = sized.vp
             /\ storeWrites' = sized.writes
             /\ smX' = sx /\ smY' = sy
             /\ uRes' = <<sized.w, sized.h>>
             /\ uTime' = now - start
             /\ uMouse' = <<sx, sy>>
             /\ drew' = TRUE
             /\ UNCHANGED <<cfg, dprLimit, start>>
  /\ UNCHANGED <<initVars, roPending, running, devicePixelRatio, rect, onScreen>>
  /\ UNCHANGED <<pointerVars, staticVars, dataset>>

\* The calls of the frame body into the browser at which an exception may be raised:
\* resize() (line 318), the first uniform call (line 325), the draw call (line 329).
ThrowPoints == {"resize", "uniforms", "draw"}

\* (mutant) a frame that would request the next frame as its last statement
FrameThrowsUnscheduled(d, at) ==
  /\ rafPending > 0 /\ running
  /\ clock' = clock + d
  /\ rafPending' = rafPending - 1
  /\ event' = "frameerror" /\ drew' = FALSE
  /\ LET now == clock + d
         dt == now - last
         q == AdaptQuality(quality, dt)
         ratio == CommitDpr(TargetDpr(HwDpr, q, dprLimit), dpr)
         sized == IF at = "resize"
                  THEN [w |-> canvasW, h |-> canvasH, vp |-> viewport, writes |-> 0]
                  ELSE Resize(rect, ratio, canvasW, canvasH, viewport)
         sx == IF at = "resize" THEN smX ELSE Smooth(smX, mouseX)
         sy == IF at = "resize" THEN smY ELSE Smooth(smY, mouseY)
     IN /\ last' = now /\ quality' = q /\ dpr' = ratio
        /\ canvasW' = sized.w /\ canvasH' = sized.h /\ viewport' = sized.vp
        /\ storeWrites' = sized.writes
        /\ smX' = sx /\ smY' = sy
        /\ IF at = "draw"
           THEN /\ uRes' = <<sized.w, sized.h>>
                /\ uTime' = now - start
                /\ uMouse' = <<sx, sy>>
           ELSE UNCHANGED uniformVars
        /\ UNCHANGED <<cfg, dprLimit, start>>
  /\ UNCHANGED <<initVars, roPending, running, devicePixelRatio, rect, onScreen>>
  /\ UNCHANGED <<pointerVars, staticVars, dataset>>

\* frame(now), with now = clock + d, cut short by an exception raised at one of these
\* calls: the statements before the call have run, those after it have not.
FrameThrows(d, at) ==
  /\ rafPending > 0 /\ running
  /\ clock' = clock + d
  /\ rafPending' = (rafPending - 1) + 1
  /\ event' = "frameerror" /\ drew' = FALSE
  /\ LET now == clock + d
         dt == now - last
         q == AdaptQuality(quality, dt)
         ratio == CommitDpr(TargetDpr(HwDpr, q, dprLimit), dpr)
         sized == IF at = "resize"
                  THEN [w |-> canvasW, h |-> canvasH, vp |-> viewport, writes |-> 0]
                  ELSE Resize(rect, ratio, canvasW, canvasH, viewport)
         sx == IF at = "resize" THEN smX ELSE Smooth(smX, mouseX)
         sy == IF at = "resize" THEN smY ELSE Smooth(smY, mouseY)
     IN /\ last' = now /\ quality' = q /\ dpr' = ratio
        /\ canvasW' = sized.w /\ canvasH' = sized.h /\ viewport' = sized.vp
        /\ storeWrites' = sized.writes
        /\ smX' = sx /\ smY' = sy
        /\ IF at = "draw"
           THEN /\ uRes' = <<sized.w, sized.h>>
                /\ uTime' = now - start
                /\ uMouse' = <<sx, sy>>
           ELSE UNCHANGED uniformVars
        /\ UNCHANGED <<cfg, dprLimit, start>>
  /\ UNCHANGED <<initVars, roPending, running, devicePixelRatio, rect, onScreen>>
  /\ UNCHANGED <<pointerVars, staticVars, dataset>>

\* ---- specifications -----------------------------------------------------
Contexts == {{}, {"webgl"}, {"experimental-webgl"}}

\* The page calls initShader, in any environment and with any of the given caps.
Boot(caps) ==
  /\ \E reduced \in BOOLEAN, contexts \in Contexts, b \in Builds, cap \in caps :
       InitShader(reduced, contexts, b, [dprCap |-> cap])
  /\ UNCHANGED paceVars

\* The page's script calls initAllShaders, in any environment.
BootAll ==
  /\ pc = "boot"
  /\ \E reduced \in BOOLEAN, contexts \in Contexts, b \in Builds :
       InitAllShaders(reduced, contexts, b)
  /\ UNCHANGED paceVars

\* The handlers the browser may run next, with their inputs drawn from the given sets.
Frames(deltas, maxNow) ==
  /\ \E d \in deltas : clock + d <= 10 * maxNow /\ Frame(d)
  /\ UNCHANGED paceVars
Pointer(points) ==
  /\ (\E pt \in points : PointerMove(pt)) \/ PointerLeave
  /\ UNCHANGED paceVars
Layout(rects) ==
  /\ (\E r \in rects : LayoutChange(r)) \/ ResizeObserved
  /\ UNCHANGED paceVars
Visibility(entries) ==
  /\ \E e \in entries : IntersectionObserved(e)
  /\ UNCHANGED paceVars
Screen(ratios) ==
  /\ \E v \in ratios : DprChange(v)
  /\ UNCHANGED paceVars

FrameErrors(deltas, maxNow) ==
  /\ \E d \in deltas, at \in ThrowPoints : clock + d <= 10 * maxNow /\ FrameThrows(d, at)
  /\ UNCHANGED paceVars

\* A frame, with the pacing observed: the dt of an Active frame and the number of
\* Active frames in a row that had it.  Idle frames compute no dt; their time adds up
\* until the next Active frame.
PacedFrames(deltas, maxNow) ==
  \E d \in deltas :
    /\ clock + d <= 10 * maxNow
    /\ Frame(d)
    /\ IF running
       THEN /\ runDt' = (clock + d) - last
            /\ runLen' = IF (clock + d) - last = runDt THEN runLen + 1 ELSE 1
            /\ idleMs' = 0
       ELSE /\ idleMs' = idleMs + d
            /\ UNCHANGED <<runDt, runLen>>

BoxA == Rect(10, 20, 200, 100)
BoxB == Rect(0, 0, 3, 2)
Centre == <<110, 70>>
Shown == {<<TRUE>>, <<FALSE>>}
\* deliveries of one entry and of two: the canvas left and came back, or came and left
Entries == {<<TRUE>>, <<FALSE>>, <<TRUE, FALSE>>, <<FALSE, TRUE>>}

\* Surface and resolution: every start-up path, layout and pixel-ratio changes.
InitSurface == Init /\ onScreen
NextSurface ==
  \/ Boot(DprCaps)
  \/ Frames({10, 30}, MaxNow)
  \/ Layout(Rects)
  \/ Visibility(Shown)
  \/ Screen(DevicePixelRatios)

SpecSurface == InitSurface /\ [][NextSurface]_vars

\* Pointer tracking: pointer positions inside and far outside, over laid-out boxes
\* and one of no size.
InitPointer == Init /\ devicePixelRatio = Scale /\ onScreen
NextPointer ==
  \/ Boot({1500})
  \/ Frames({10}, MaxNowP)
  \/ Pointer(Points)
  \/ Layout({Rect(0, 0, 0, 0), BoxA, BoxB})

SpecPointer == InitPointer /\ [][NextPointer]_vars

\* Frame pacing over a long run.
InitQuality == Init /\ devicePixelRatio = Scale /\ rect = BoxA /\ onScreen
NextQuality ==
  \/ Boot({1500})
  \/ Frames(Deltas, MaxNowQ)
  \/ Pointer({Centre})
  \/ ResizeObserved /\ UNCHANGED paceVars
  \/ Visibility(Shown)

SpecQuality == InitQuality /\ [][NextQuality]_vars

\* Sustained pacing: runs of frames 10ms or 30ms apart.
NextSustained ==
  \/ Boot({1500})
  \/ PacedFrames({10, 30}, MaxNowS)

SpecSustained == InitQuality /\ [][NextSustained]_vars

\* Configuration: pages whose canvas carries data attributes, started by
\* initAllShaders.
InitConfig == InitWith(Datasets) /\ devicePixelRatio = Scale /\ rect = BoxA /\ onScreen
NextConfig ==
  \/ BootAll
  \/ Frames({10}, MaxNowC)
  \/ Pointer({Centre})
  \/ ResizeObserved /\ UNCHANGED paceVars
  \/ Visibility(Shown)

SpecConfig == InitConfig /\ [][NextConfig]_vars

\* The dead zone: frames on either side of 17ms and of 22ms, with Idle periods
\* that make longer deltas.
NextDeadZone ==
  \/ Boot({1500})
  \/ PacedFrames({16, 17, 22, 23}, MaxNowD)
  \/ Visibility(Shown)

SpecDeadZone == InitQuality /\ [][NextDeadZone]_vars

\* The frame loop: frames that complete, frames cut short by an exception, and
\* Idle periods.  The browser runs a requested frame callback at its next rendering
\* opportunity, so a frame that can run does run.
LoopFrames == Frames({10, 30}, MaxNowL) \/ FrameErrors({10, 30}, MaxNowL)
NextLoop ==
  \/ Boot({1500})
  \/ LoopFrames
  \/ Visibility(Shown)

SpecLoop == InitQuality /\ [][NextLoop]_vars /\ WF_vars(LoopFrames)

\* Events between frames: pointer events, layout changes and their notifications,
\* and visibility changes, before the next tick.
BoxThin == Rect(5, 5, 1, 40)
NextEvents ==
  \/ Boot({NaN, 1500})
  \/ Frames({10}, MaxNowE)
  \/ Pointer({<<60, 110>>, <<1000, 0 - 1000>>})
  \/ Layout({BoxA, BoxB, BoxThin})
  \/ Visibility(Shown)

SpecEvents == InitQuality /\ [][NextEvents]_vars

\* Idle periods: visibility notifications of one or two entries between frames
\* 10ms or 30ms apart.
NextIdle ==
  \/ Boot({1500})
  \/ PacedFrames({10, 30}, MaxNowI)
  \/ Visibility(Entries)

SpecIdle == InitQuality /\ [][NextIdle]_vars

\* ---- properties ---------------------------------------------------------
Session == pc = "session"
\* the step just taken was a frame tick that ran while Active
ActiveFrame == event = "frame" /\ drew
\* the target ratio of the current state: min(hardware DPR x quality, cap)
Target == TargetDpr(HwDpr, quality, dprLimit)
Centred == mouseX = Half /\ mouseY = Half
In01(v) == v >= 0 /\ v <= PScale
Abs(n) == IF n < 0 THEN 0 - n ELSE n

\* C1: in a session the quality factor starts at 1.0 and never leaves [0.75, 1.0],
\* whatever the frame deltas and whatever events come between the frames.
QualityBounded ==
  Session =>
    /\ quality >= QualityMin /\ quality <= QualityMax
    /\ (event = "init" => quality = QualityMax)
\* nine slow frames have brought the quality to the floor
QualityAtFloor == Session /\ event = "frame" /\ quality = QualityMin

\* frames a sustained run needs to cross the whole range: 9 slow, 25 fast
SlowFrames == ((QualityMax - QualityMin) + (QualityDown - 1)) \div QualityDown
FastFrames == (QualityMax - QualityMin) \div QualityUp

\* C2: a run of Active frames 30ms apart lowers the quality by 0.03 a frame down to
\* exactly 0.75, reached after at most 9 frames from any quality, and holds it there;
\* a run of Active frames 10ms apart raises it by 0.01 a frame up to exactly 1.0,
\* reached after at most 25 frames, and holds it there.
SustainedPacing ==
  Session =>
    /\ runDt = 30 =>
         /\ quality <= MathMax(QualityMin, QualityMax - QualityDown * runLen)
         /\ (runLen >= SlowFrames => quality = QualityMin)
    /\ runDt = 10 =>
         /\ quality >= MathMin(QualityMax, QualityMin + QualityUp * runLen)
         /\ (runLen >= FastFrames => quality = QualityMax)
\* a run of 30ms frames has gone on past the ninth frame, at the floor
SlowRunHeld == Session /\ runDt = 30 /\ runLen > SlowFrames /\ quality = QualityMin

CapAndDprBounded ==
  Session =>
    /\ ~IsNaN(dprLimit) /\ dprLimit >= DprLimitLo /\ dprLimit <= DprLimitHi
    /\ ~IsNaN(dpr) /\ dpr <= MathMin(dprLimit, HwDpr)

\* the step just taken called resize()
CalledResize == event = "init" \/ event = "resize" \/ ActiveFrame
\* C5: a call of resize() writes the backing store exactly when the layout box is
\* at least 2px on both axes and floor(box x dpr) differs from the store, and then
\* sets store and viewport to that target; a second call with the same box and dpr
\* writes nothing.
ResizeStep ==
  LET boxed == rect.width >= MinBox /\ rect.height >= MinBox
      w == FloorPx(rect.width, dpr')
      h == FloorPx(rect.height, dpr')
  IN (Session' /\ CalledResize') =>
       /\ (storeWrites' = 1) <=> (boxed /\ (canvasW # w \/ canvasH # h))
       /\ storeWrites' = 1 => (canvasW' = w /\ canvasH' = h /\ viewport' = <<w, h>>)
       /\ storeWrites' = 0 => UNCHANGED surfaceVars
       /\ (Session /\ CalledResize /\ dpr' = dpr) => storeWrites' = 0
ResizeIdempotent == [][ResizeStep]_vars

\* C6: raw and smoothed pointer coordinates, and the mouse uniform, stay in [0, 1].
PointerInRange ==
  Session =>
    /\ In01(mouseX) /\ In01(mouseY) /\ In01(smX) /\ In01(smY)
    /\ In01(uMouse[1]) /\ In01(uMouse[2])
\* a move far outside was clamped to the corner and a frame has smoothed towards it
PointerClamped ==
  Session /\ event = "frame" /\ mouseX = PScale /\ mouseY = 0 /\ smX > Half /\ smY < Half

\* C7: right after a pointerleave both raw coordinates are 0.5, and they stay 0.5
\* until a pointermove is accepted (one over a box of positive size).
LeaveCentres ==
  /\ [](event = "pointerleave" => Centred)
  /\ [][(Centred /\ ~Centred') =>
          (event' = "pointermove" /\ rect.width > 0 /\ rect.height > 0)]_vars
\* a pointerleave after the pointer had been tracked away from the centre
LeftAfterTracking == Session /\ event = "pointerleave" /\ Centred /\ smX # Half

\* C8, as stated: an Active frame leaves a smoothed coordinate that equals the raw one
\* unchanged; otherwise the new distance is 0.92 times the old one, strictly smaller,
\* with the sign of raw - smoothed kept.
ExactStep(raw, sm, sm2) ==
  IF raw = sm THEN sm2 = sm
  ELSE /\ 100 * Abs(raw - sm2) = 92 * Abs(raw - sm)
       /\ Abs(raw - sm2) < Abs(raw - sm)
       /\ (raw > sm) = (raw > sm2) /\ (raw < sm) = (raw < sm2)
RoundedStep(raw, sm, sm2) ==
  IF raw = sm THEN sm2 = sm
  ELSE /\ 2 * Abs(SmoothDen * (sm2 - sm) - SmoothNum * (raw - sm)) <= SmoothDen
       /\ Abs(raw - sm2) <= Abs(raw - sm)
       /\ (raw > sm) = (raw > sm2) /\ (raw < sm) = (raw < sm2)
EarlyExit == pc \in {"reduced", "nocontext", "buildfailed"}
EarlyExitInert ==
  EarlyExit =>
    /\ display = "none" /\ ~threw
    /\ rafPending = 0 /\ attached = {} /\ ~drew
    /\ (pc = "reduced" => (~glContext /\ gpuLive = {}))
\* the build failed with a context in hand
BuildFailedHidden == pc = "buildfailed" /\ glContext /\ display = "none"

\* C10: when the build fails, no GPU object created by the attempt is still live.
BuildFailureReleasesAll == pc = "buildfailed" => gpuLive = {}

\* C11: the static uniforms committed at start-up are lineOpacity clamped to [0, 1],
\* lineDensity floored at 2, speed floored at 0.05 and mouseStrength clamped to
\* [0, 1], for every configuration; no frame tick and no event writes them again.
ClampedTo(u, v, lo, hi) ==
  /\ ~IsNaN(u) /\ lo <= u /\ u <= hi
  /\ (~IsNaN(v) /\ v < lo) => u = lo
  /\ (~IsNaN(v) /\ v > hi) => u = hi
  /\ (~IsNaN(v) /\ lo <= v /\ v <= hi) => u = v
\* a bound no value of the model reaches, for the uniforms that have a floor only
NoCeiling == 1000 * Scale
StaticUniformsClamped ==
  /\ [](Session =>
          /\ ClampedTo(uOpacity, cfg.lineOpacity, 0, Scale)
          /\ ClampedTo(uDensity, cfg.lineDensity, DensityMin, NoCeiling)
          /\ ClampedTo(uSpeed, cfg.speed, SpeedMin, NoCeiling)
          /\ ClampedTo(uMouseStrength, cfg.mouseStrength, 0, Scale))
  /\ [][Session => UNCHANGED staticVars]_vars

\* C12: started by initAllShaders, a numeric field whose data attribute is absent or
\* has a text that parses to no number has its default in the resolved configuration.
AttributeDefaults ==
  Session =>
    \A f \in Fields :
      (~dataset[f].has \/ IsNaN(ParseFloat(dataset[f].text))) => cfg[f] = defaultConfig[f]

\* C13: an Active frame with dt = now - last lowers the quality to
\* max(0.75, quality - 0.03) when dt > 22, raises it to min(1.0, quality + 0.01) when
\* dt < 17, and leaves it unchanged for 17 <= dt <= 22; so the quality never falls on
\* a frame with dt <= 22 and never rises on a frame with dt >= 17.
QualityRule ==
  LET dt == clock' - last
  IN ActiveFrame' =>
       /\ dt > SlowMs => quality' = MathMax(QualityMin, quality - QualityDown)
       /\ dt < FastMs => quality' = MathMin(QualityMax, quality + QualityUp)
       /\ (FastMs <= dt /\ dt <= SlowMs) => quality' = quality
       /\ dt <= SlowMs => quality' >= quality
       /\ dt >= FastMs => quality' <= quality
QualityPerFrame == [][QualityRule]_vars
\* a frame 22ms after the last one has left a lowered quality where it was
DeadZoneEdgeHeld ==
  Session /\ ActiveFrame /\ runDt = SlowMs /\ quality < QualityMax /\ quality > QualityMin

\* C14: an Active frame replaces the effective ratio by the target
\* min(hardware DPR x quality, dprLimit) exactly when |target - dpr| > 0.02 and
\* otherwise leaves it; nothing else modifies it after initialization; so after
\* every Active frame |dpr - target| <= 0.02.
DprCommitRule ==
  LET target == TargetDpr(HwDpr, quality', dprLimit)
      far == Gt(MathAbs(Sub(target, dpr)), DprEps)
  IN /\ ActiveFrame' => ((far => dpr' = target) /\ (~far => dpr' = dpr))
     /\ (Session /\ ~ActiveFrame') => dpr' = dpr
DprHysteresis ==
  /\ [][DprCommitRule]_vars
  /\ []((Session /\ ActiveFrame) =>
          (~IsNaN(dpr) /\ ~IsNaN(Target) /\ Abs(dpr - Target) <= DprEps))

\* C15: a frame tick that finds the visibility flag false only reschedules the next
\* frame: the last-frame timestamp, quality, ratio, backing store, smoothed pointer
\* and all uniforms stay as they were and nothing is drawn; only a frame tick that
\* runs while the flag is true issues a draw call.
IdleTickRule ==
  /\ (event' = "frame" /\ ~running) =>
       /\ UNCHANGED <<last, quality, dpr, surfaceVars, smoothVars, uniformVars, staticVars>>
       /\ ~drew' /\ rafPending' = rafPending
  /\ drew' => (event' = "frame" /\ running)
IdleTickInert == [][IdleTickRule]_vars
\* an Idle tick, later than the last Active frame, with a resize notification waiting
IdleTicked ==
  Session /\ event = "frame" /\ ~running /\ ~drew /\ clock > last /\ roPending

\* C16: every invocation of the frame callback, Active or Idle, requests the next
\* frame first: in a session exactly one frame callback is pending between
\* invocations, also after a frame that an exception cut short, and the loop never
\* stops (frames go on running up to the horizon of the model).
Horizon == 10 * MaxNowL
LoopKeptAlive ==
  /\ [](Session => rafPending = 1)
  /\ (Session ~> (Session /\ clock = Horizon))
\* an exception has cut a frame short, and a frame callback is pending
FrameFailedStillPending == Session /\ event = "frameerror" /\ rafPending = 1 /\ clock > 0

\* what a frame tick makes of the pointer and the layout box it finds
SmoothsTowardsRaw ==
  /\ smX' = Smooth(smX, mouseX) /\ smY' = Smooth(smY, mouseY)
  /\ uMouse' = <<smX', smY'>>
Boxed == rect.width >= MinBox /\ rect.height >= MinBox

\* C17, as stated: the frame tick that follows a pointer event or a resize
\* notification smooths towards the raw pointer value written last, and the backing
\* store it pushes and draws is floor(box x dpr) for the box reported last.
NextTickRule ==
  (event' = "frame" /\ ~roPending) =>
    /\ SmoothsTowardsRaw
    /\ canvasW' = FloorPx(rect.width, dpr') /\ canvasH' = FloorPx(rect.height, dpr')
    /\ uRes' = <<canvasW', canvasH'>> /\ drew'
NextTickObserves == [][NextTickRule]_vars

\* C17, amended: an Idle tick observes nothing; the first Active tick after the event
\* smooths towards the raw pointer value written last, and pushes and draws the
\* backing store for the layout box it finds: floor(box x dpr) when the box is at
\* least 2px on both axes (0 x 0 when dpr is NaN), the store as it was otherwise.
NextActiveTickRule ==
  /\ ActiveFrame' =>
       /\ SmoothsTowardsRaw
       /\ IF Boxed
          THEN /\ canvasW' = ToUint(FloorPx(rect.width, dpr'))
               /\ canvasH' = ToUint(FloorPx(rect.height, dpr'))
          ELSE UNCHANGED <<canvasW, canvasH>>
       /\ uRes' = <<canvasW', canvasH'>>
  /\ (event' = "frame" /\ ~drew') => UNCHANGED <<smoothVars, surfaceVars, uniformVars>>
NextActiveTickObserves == [][NextActiveTickRule]_vars
\* an Active tick after the pointer moved to the corner and the box shrank
TickSawEvents ==
  Session /\ ActiveFrame /\ mouseX = PScale /\ smX > Half /\ uMouse[1] = smX
    /\ rect = BoxB /\ canvasW = BoxB.width /\ uRes[1] = BoxB.width

\* C18: the session starts Active, and after each delivery of visibility
\* notifications it is Active exactly when the canvas is on screen at that moment,
\* also when the delivery carries several entries.
RunningTracksScreen ==
  Session =>
    /\ event = "init" => running
    /\ event = "intersection" => (running = onScreen)

\* C20: Idle ticks leave the last-frame timestamp alone, so the first Active frame
\* after them computes dt from the latest Active frame (or the start), the Idle time
\* included; after more than 22ms of Idle time it lowers the quality by 0.03, not
\* below 0.75, however close together the ticks were.
ResumeRule ==
  /\ (event' = "frame" /\ ~running) => last' = last
  /\ ActiveFrame' =>
       /\ runDt' = idleMs + (clock' - clock)
       /\ idleMs > SlowMs => quality' = MathMax(QualityMin, quality - QualityDown)
ResumeLowersQuality == [][ResumeRule]_vars
\* the first Active frame after Idle ticks 10ms apart has seen a dt of 40ms
ResumedSlow ==
  Session /\ ActiveFrame /\ runLen = 1 /\ runDt = 40 /\ clock = 40 /\ quality < QualityMax

\* C19: at every draw call the viewport and the resolution uniform pushed in that
\* frame equal the backing store, which is floor(box x dpr) for the ratio committed
\* in that frame when the layout box is at least 2px on both axes; and no step
\* changes the backing store without setting the viewport to the same size.
StoreAtDraw ==
  (Session /\ drew) =>
    /\ viewport = <<canvasW, canvasH>>
    /\ uRes = <<canvasW, canvasH>>
    /\ Boxed => (canvasW = FloorPx(rect.width, dpr) /\ canvasH = FloorPx(rect.height, dpr))
ViewportIsStore ==
  /\ []StoreAtDraw
  /\ [][<<canvasW, canvasH>>' # <<canvasW, canvasH>> => viewport' = <<canvasW', canvasH'>>]_vars
====
